---- MODULE Spec2Model ----
(***************************************************************************)
(* Model of ukebook_helper: the fuzzy matcher (matcher.py), the three      *)
(* choosers (ui.py) and the navigation loop of main (__main__.py).         *)
(*                                                                         *)
(* Strings that the program compares character by character (titles,       *)
(* artists, catalog display names) are sequences of one-character strings. *)
(* Python's None is the empty sequence and a present value v is <<v>>.     *)
(* The cursor i is 0-based as in the source; PyIndex reads a Python list.  *)
(***************************************************************************)
EXTENDS Integers, Sequences, FiniteSets, TLC

VARIABLES
    \* ---- find_matches called on its own (specification SpecMatch) ----
    m_song,          \* input_song argument: [title, artist]
    m_catalog,       \* available_songs argument: insertion-ordered dict
    m_threshold,     \* threshold argument
    m_result,        \* the returned list
    m_called,        \* whether the call has returned
    \* ---- main's navigation loop (specification Spec) ----
    input_songs,     \* read_input_list's result
    break_url,       \* config.get('break_url') is truthy
    i,               \* cursor
    selected_songs,  \* outcome list
    matches,         \* local of the current iteration
    selected_index,  \* highlight of the chooser being shown
    pc,              \* position of main
    exit_code,       \* "none" while running or returned, else sys.exit's argument
    cancelled,       \* "Operation cancelled by user" was printed
    opened,          \* webbrowser.open calls so far
    advances,        \* history: number of i += 1 executed
    go_backs,        \* history: number of go-back signals handled
    skips,           \* history: number of explicit skips chosen by the operator
    back_from,       \* history: <<index>> the last go-back was issued at, until the next prompt is answered
    \* ---- read_input_list called on its own (specification SpecRead) ----
    r_lines,         \* the lines of the file, without their line ends
    r_result,        \* the returned list
    r_done           \* whether the call has returned

mvars == <<m_song, m_catalog, m_threshold, m_result, m_called>>
nvars == <<input_songs, break_url, i, selected_songs, matches, selected_index,
           pc, exit_code, cancelled, opened, advances, go_backs, skips, back_from>>
rvars == <<r_lines, r_result, r_done>>
vars == <<mvars, nvars, rvars>>

----------------------------------------------------------------------------
\* Bounds of the model
MaxCatalog == 2      \* entries of the catalog given to a lone find_matches call
MaxLines == 2        \* lines of the file given to a lone read_input_list call
MaxFields == 4       \* tab-separated fields of one such line
MaxLen == 3          \* items of the setlist
MaxGoBacks == 2      \* go-back signals in one run

\* Program constant
DefaultThreshold == 60

None == <<>>
Some(v) == <<v>>

Max(a, b) == IF a >= b THEN a ELSE b

\* Python list indexing, negative indices counting from the end
PyIndex(list, k) == IF k < 0 THEN list[Len(list) + k + 1] ELSE list[k + 1]

----------------------------------------------------------------------------
\* fuzz.ratio: round(100 * 2 * LCS / (len1 + len2)), the normalised Indel similarity

RECURSIVE FillRow(_, _, _, _)
FillRow(c, s2, prev, acc) ==
    IF Len(acc) = Len(s2) + 1 THEN acc
    ELSE LET j == Len(acc)
             v == IF s2[j] = c THEN prev[j] + 1 ELSE Max(prev[j + 1], acc[j])
         IN  FillRow(c, s2, prev, Append(acc, v))

RECURSIVE LcsRow(_, _, _)
LcsRow(s1, s2, k) ==
    IF k = 0 THEN [j \in 1..(Len(s2) + 1) |-> 0]
    ELSE FillRow(s1[k], s2, LcsRow(s1, s2, k - 1), <<0>>)

LcsLength(s1, s2) == LcsRow(s1, s2, Len(s1))[Len(s2) + 1]

\* Python's round(num / den): half to even
PyRound(num, den) ==
    LET q == num \div den
        r == num % den
    IN  IF 2 * r < den THEN q
        ELSE IF 2 * r > den THEN q + 1
        ELSE IF q % 2 = 0 THEN q ELSE q + 1

ratio(s1, s2) ==
    IF Len(s1) + Len(s2) = 0 THEN 100
    ELSE PyRound(200 * LcsLength(s1, s2), Len(s1) + Len(s2))

----------------------------------------------------------------------------
\* matcher.py

Match(display_name, song, similarity) ==
    [display_name |-> display_name, song |-> song, similarity |-> similarity]

Sep == <<" ", "-", " ">>

search_string(input_song) == input_song.title \o Sep \o input_song.artist

MeetsThresholdReversed(similarity, threshold) == similarity <= threshold

MeetsThresholdStrict(similarity, threshold) == similarity > threshold

\* the test of line 38
MeetsThreshold(similarity, threshold) == similarity >= threshold

\* the loop of lines 34-43 over the first n items of the dict
RECURSIVE Collect(_, _, _, _)
Collect(s, available_songs, threshold, n) ==
    IF n = 0 THEN <<>>
    ELSE LET rest == Collect(s, available_songs, threshold, n - 1)
             item == available_songs[n]
             similarity == ratio(s, item.display_name)
         IN  IF MeetsThreshold(similarity, threshold)
             THEN Append(rest, Match(item.display_name, item.song, similarity))
             ELSE rest

InsertDescending(list, m) ==
    LET k == Cardinality({j \in 1..Len(list) : list[j].similarity >= m.similarity})
    IN  SubSeq(list, 1, k) \o <<m>> \o SubSeq(list, k + 1, Len(list))

InsertBeforeEqual(list, m) ==
    LET k == Cardinality({j \in 1..Len(list) : list[j].similarity < m.similarity})
    IN  SubSeq(list, 1, k) \o <<m>> \o SubSeq(list, k + 1, Len(list))

\* where sorted() puts m among the already sorted list: after every element
\* whose key is not greater (stable, ascending)
InsertByKey(list, m) ==
    LET k == Cardinality({j \in 1..Len(list) : list[j].similarity <= m.similarity})
    IN  SubSeq(list, 1, k) \o <<m>> \o SubSeq(list, k + 1, Len(list))

\* sorted(matches, key=lambda x: x.similarity)
RECURSIVE sorted(_)
sorted(list) ==
    IF list = <<>> THEN <<>>
    ELSE InsertByKey(sorted(SubSeq(list, 1, Len(list) - 1)), list[Len(list)])

find_matches(input_song, available_songs, threshold) ==
    sorted(Collect(search_string(input_song), available_songs, threshold,
                   Len(available_songs)))

----------------------------------------------------------------------------
\* A lone call of find_matches: the inputs it is called with

MatchTitles == {<<"a">>, <<"a", "b">>}
MatchArtists == {<<>>, <<"b">>}
MatchLabels == {<<"a">>, <<"b">>, <<"a", " ", "-", " ", "b">>,
                <<"b", " ", "-", " ", "a">>, <<"a", "b", " ", "-", " ", "b">>,
                <<"a", " ", "-", " ", "b", "0">>}
Thresholds == {0, 50, DefaultThreshold, 80, 100}

\* the Song stored under a display name
SongAt(label) == [title |-> label, artist |-> <<>>, href |-> label]

\* dicts of at most MaxCatalog entries: sequences of distinct keys, in insertion order
RECURSIVE Catalogs(_)
Catalogs(n) ==
    IF n = 0 THEN {<<>>}
    ELSE LET shorter == Catalogs(n - 1)
         IN  shorter \cup
             {Append(c, [display_name |-> l, song |-> SongAt(l)]) :
                 c \in {d \in shorter : Len(d) = n - 1},
                 l \in MatchLabels}

DistinctKeys(c) == \A j, k \in 1..Len(c) : j # k => c[j].display_name # c[k].display_name

NavIdle ==
    /\ input_songs = <<>>
    /\ break_url = FALSE
    /\ i = 0
    /\ selected_songs = <<>>
    /\ matches = <<>>
    /\ selected_index = 0
    /\ pc = "idle"
    /\ exit_code = "none"
    /\ cancelled = FALSE
    /\ opened = <<>>
    /\ advances = 0
    /\ go_backs = 0
    /\ skips = 0
    /\ back_from = None

ReadIdle ==
    /\ r_lines = <<>>
    /\ r_result = <<>>
    /\ r_done = FALSE

InitMatch ==
    /\ ReadIdle
    /\ m_song \in [title : MatchTitles, artist : MatchArtists]
    /\ m_catalog \in {c \in Catalogs(MaxCatalog) : DistinctKeys(c)}
    /\ m_threshold \in Thresholds
    /\ m_result = <<>>
    /\ m_called = FALSE
    /\ NavIdle

CallFindMatches ==
    /\ ~m_called
    /\ m_result' = find_matches(m_song, m_catalog, m_threshold)
    /\ m_called' = TRUE
    /\ UNCHANGED <<m_song, m_catalog, m_threshold, nvars, rvars>>

NextMatch == CallFindMatches

SpecMatch == InitMatch /\ [][NextMatch]_vars

----------------------------------------------------------------------------
\* C1: every candidate find_matches returns carries the similarity of its
\* display name to the search string, and that similarity is at least the
\* threshold; no candidate below the threshold is in the result.
C1_Threshold ==
    m_called =>
        \A k \in 1..Len(m_result) :
            /\ m_result[k].similarity = ratio(search_string(m_song), m_result[k].display_name)
            /\ m_result[k].similarity >= m_threshold

\* a call that kept one entry and dropped another
C1_Witness ==
    /\ m_called
    /\ Len(m_result) >= 1
    /\ Len(m_result) < Len(m_catalog)
    /\ m_threshold > 0

\* C2: find_matches returns its candidates in non-decreasing order of
\* similarity, so the last element of a non-empty result has the maximum score.
C2_Ascending ==
    m_called =>
        /\ \A j, k \in 1..Len(m_result) :
               j < k => m_result[j].similarity <= m_result[k].similarity
        /\ m_result # <<>> =>
               \A k \in 1..Len(m_result) :
                   m_result[k].similarity <= m_result[Len(m_result)].similarity

\* a call whose result had to be reordered: the catalog lists the better match first
C2_Witness ==
    /\ m_called
    /\ Len(m_result) = 2
    /\ m_result[1].similarity < m_result[2].similarity
    /\ m_result[1].display_name = m_catalog[2].display_name
    /\ m_result[2].display_name = m_catalog[1].display_name

----------------------------------------------------------------------------
\* the position of a display name in the dict's iteration order
CatalogIndex(display_name) ==
    CHOOSE k \in 1..Len(m_catalog) : m_catalog[k].display_name = display_name

\* C18: the order of the result of find_matches is fixed by its inputs alone:
\* of any two candidates the one returned first has the smaller score, or the
\* same score and the earlier place in the catalog's iteration order; so
\* equal calls return equal sequences, and candidates with equal score appear
\* in the catalog's insertion order.
C18_Stable ==
    m_called =>
        \A j, k \in 1..Len(m_result) :
            j < k =>
                \/ m_result[j].similarity < m_result[k].similarity
                \/ /\ m_result[j].similarity = m_result[k].similarity
                   /\ CatalogIndex(m_result[j].display_name)
                          < CatalogIndex(m_result[k].display_name)

\* a call that returned two candidates of equal score below 100
C18_Witness ==
    /\ m_called
    /\ Len(m_result) = 2
    /\ m_result[1].similarity = m_result[2].similarity
    /\ m_result[1].similarity < 100
    /\ m_result[1].display_name # m_result[2].display_name
    /\ m_threshold = DefaultThreshold

----------------------------------------------------------------------------
\* the score find_matches gives to the k-th catalog entry
Score(k) == ratio(search_string(m_song), m_catalog[k].display_name)

Qualifying == {k \in 1..Len(m_catalog) : Score(k) >= m_threshold}

\* C19: the candidates find_matches returns are exactly the catalog entries
\* whose similarity to "{title} - {artist}" is at least the threshold: every
\* such entry appears exactly once, with its own label, Song and score, the
\* result holds nothing else, and the call leaves the catalog as it was.
C19_Complete ==
    /\ [](m_called =>
            /\ \A k \in Qualifying :
                   Cardinality({j \in 1..Len(m_result) :
                       m_result[j] = Match(m_catalog[k].display_name, m_catalog[k].song,
                                           Score(k))}) = 1
            /\ \A j \in 1..Len(m_result) :
                   \E k \in Qualifying : m_result[j].display_name = m_catalog[k].display_name
            /\ Len(m_result) = Cardinality(Qualifying))
    /\ [][m_catalog' = m_catalog]_vars

\* a call that kept an entry scoring exactly the threshold and dropped another
C19_Witness ==
    /\ m_called
    /\ m_threshold > 0
    /\ \E k \in Qualifying : Score(k) = m_threshold /\ Score(k) < 100
    /\ Cardinality(Qualifying) < Len(m_catalog)
    /\ Len(m_result) = 1

----------------------------------------------------------------------------
\* models.py: the items read_input_list returns

InputSong(title, artist, gema_nr, leader) ==
    [kind |-> "Song", title |-> title, artist |-> artist,
     gema_nr |-> gema_nr, leader |-> leader]

\* the string "Break" read_input_list appends for a break line
BreakItem ==
    [kind |-> "Break", title |-> <<>>, artist |-> <<>>, gema_nr |-> "", leader |-> ""]

IsBreak(entry) == entry.kind = "Break"

\* client.py: the dict fetch_songs builds, keyed "{title} - {artist} ({idx})"
Song(title, artist, href) == [title |-> title, artist |-> artist, href |-> href]

Digits == <<"0", "1", "2", "3", "4", "5", "6", "7", "8", "9">>

SongKey(title, artist, idx) ==
    IF artist # <<>>
    THEN title \o Sep \o artist \o <<" ", "(", Digits[idx + 1], ")">>
    ELSE title \o <<" ", "(", Digits[idx + 1], ")">>

\* the songs on the site, in page order
SiteSongs ==
    << Song(<<"a">>, <<"b">>, "/songbook/0"),
       Song(<<"a">>, <<"b", "b">>, "/songbook/1"),
       Song(<<"c">>, <<"b">>, "/songbook/2") >>

available_songs ==
    [k \in 1..Len(SiteSongs) |->
        [display_name |-> SongKey(SiteSongs[k].title, SiteSongs[k].artist, k - 1),
         song |-> SiteSongs[k]]]

\* the setlist entries of the model: SongA has two candidates on the site,
\* SongB one, SongN none
SongA == InputSong(<<"a">>, <<"b">>, "1", "Ann")
SongB == InputSong(<<"c">>, <<"b">>, "2", "Bob")
SongN == InputSong(<<"x">>, <<"y">>, "3", "Nat")

Items == {BreakItem, SongA, SongB, SongN}

Setlists == UNION {[1..n -> Items] : n \in 0..MaxLen}

----------------------------------------------------------------------------
\* ui.py

SkipLabel == <<"S", "k", "i", "p">>
GoBackLabel == <<"G", "o", " ", "b", "a", "c", "k">>

\* select_match, line 29
MatchChoices(ms) ==
    [k \in 1..Len(ms) |-> <<Some(ms[k]), ms[k].display_name>>]
        \o << <<None, SkipLabel>>, <<None, GoBackLabel>> >>

MatchInitialIndexFirst(ms) == 0

\* select_match, line 30
MatchInitialIndex(ms) == Len(ms) - 1

SelectMatchResultNoneIsBack(ms, index) ==
    LET choice == PyIndex(MatchChoices(ms), index)
    IN  IF choice[1] = None
        THEN [selected |-> None, go_back |-> TRUE]
        ELSE [selected |-> choice[1], go_back |-> FALSE]

\* select_match: handle_enter on the highlighted choice, then the return of line 111
SelectMatchResult(ms, index) ==
    LET choice == PyIndex(MatchChoices(ms), index)
    IN  IF choice[2] = GoBackLabel
        THEN [selected |-> None, go_back |-> TRUE]
        ELSE [selected |-> choice[1], go_back |-> FALSE]

\* confirm_action, line 127
ActionChoices == << <<TRUE, "Yes">>, <<FALSE, "No">> >>

\* confirm_action: handle_enter, then the return of line 188
ConfirmActionResult(index) == PyIndex(ActionChoices, index)[1]

\* confirm_break, line 201
BreakChoices == << <<Some(TRUE), "Take a break">>, <<Some(FALSE), "Skip break">>,
                   <<None, "Go back">> >>

\* confirm_break: handle_enter, then the return of line 266
ConfirmBreakResult(index) ==
    LET choice == PyIndex(BreakChoices, index)
    IN  IF choice[2] = "Go back"
        THEN [take_break |-> FALSE, go_back |-> TRUE]
        ELSE [take_break |-> choice[1] = Some(TRUE), go_back |-> FALSE]

IndexDownClamped(index, n) == IF index = n - 1 THEN index ELSE index + 1

\* handle_up / handle_down of the three choosers
IndexUp(index, n) == (index - 1) % n
IndexDown(index, n) == (index + 1) % n

----------------------------------------------------------------------------
\* __main__.py: the navigation loop of main, lines 113-190

BlockingPrompts ==
    {"announce", "select_match", "confirm_action", "confirm_break",
     "break_wait", "final_wait"}

HasBreakUrlAlways == TRUE

\* the truthiness of break_url tested at lines 120 and 182
HasBreakUrl == break_url

RewindByTwo(k) == Max(0, k - 2)

RewindNoFloor(k) == k - 1

\* lines 127 and 167
RewindIndex(k) == Max(0, k - 1)

NoMatchesIgnored(ms) == FALSE

\* line 156: if not matches
NoMatches(ms) == ms = <<>>

NoMatchDeclineSkips(skip, k) ==
    [i |-> k + 1, pc |-> "loop", exit_code |-> "none"]

\* lines 158-162: what main does with confirm_action's answer
NoMatchOutcome(skip, k) ==
    IF skip
    THEN [i |-> k + 1, pc |-> "loop", exit_code |-> "none"]
    ELSE [i |-> k, pc |-> "exited", exit_code |-> "1"]

SongOutcomeSkipRecorded(r, k, records) ==
    IF r.go_back
    THEN [i |-> RewindIndex(k), selected_songs |-> records, open |-> None,
          pc |-> "loop", exit_code |-> "none"]
    ELSE IF r.selected # None
    THEN [i |-> k + 1, selected_songs |-> Append(records, <<"song", r.selected>>),
          open |-> Some(r.selected[1].song.href), pc |-> "loop", exit_code |-> "none"]
    ELSE [i |-> k + 1, selected_songs |-> Append(records, <<"song", None>>),
          open |-> None, pc |-> "loop", exit_code |-> "none"]

SongOutcomeSkipAborts(r, k, records) ==
    IF r.go_back
    THEN [i |-> RewindIndex(k), selected_songs |-> records, open |-> None,
          pc |-> "loop", exit_code |-> "none"]
    ELSE IF r.selected # None
    THEN [i |-> k + 1, selected_songs |-> Append(records, <<"song", r.selected>>),
          open |-> Some(r.selected[1].song.href), pc |-> "loop", exit_code |-> "none"]
    ELSE [i |-> k, selected_songs |-> records, open |-> None,
          pc |-> "exited", exit_code |-> "1"]

\* lines 166-179: what main does with select_match's result
SongOutcome(r, k, records) ==
    IF r.go_back
    THEN [i |-> RewindIndex(k), selected_songs |-> records, open |-> None,
          pc |-> "loop", exit_code |-> "none"]
    ELSE IF r.selected # None
    THEN [i |-> k + 1, selected_songs |-> Append(records, <<"song", r.selected>>),
          open |-> Some(r.selected[1].song.href), pc |-> "loop", exit_code |-> "none"]
    ELSE [i |-> k + 1, selected_songs |-> records, open |-> None,
          pc |-> "loop", exit_code |-> "none"]

BreakOutcomeSkipRecorded(r, k, records) ==
    IF r.go_back
    THEN [i |-> RewindIndex(k), selected_songs |-> records, open |-> None, pc |-> "loop"]
    ELSE IF r.take_break
    THEN [i |-> k, selected_songs |-> Append(records, <<"break", None>>),
          open |-> Some("break_url"), pc |-> "break_wait"]
    ELSE [i |-> k + 1, selected_songs |-> Append(records, <<"break", None>>),
          open |-> None, pc |-> "loop"]

\* lines 126-139: what main does with confirm_break's result, up to the next
\* blocking point (the input() of line 134 when the break is taken)
BreakOutcome(r, k, records) ==
    IF r.go_back
    THEN [i |-> RewindIndex(k), selected_songs |-> records, open |-> None, pc |-> "loop"]
    ELSE IF r.take_break
    THEN [i |-> k, selected_songs |-> Append(records, <<"break", None>>),
          open |-> Some("break_url"), pc |-> "break_wait"]
    ELSE [i |-> k + 1, selected_songs |-> records, open |-> None, pc |-> "loop"]

InterruptSwallowed(at) ==
    [pc |-> "loop", exit_code |-> "none", cancelled |-> FALSE]

\* the KeyboardInterrupt handlers (lines 107-109, 135-137, 147-149, 186-188 and
\* ui.py's handle_ctrl_c): print the message, sys.exit(0)
InterruptOutcome(at) ==
    [pc |-> "exited", exit_code |-> "0", cancelled |-> TRUE]

MatchIdle ==
    /\ m_song = [title |-> <<>>, artist |-> <<>>]
    /\ m_catalog = <<>>
    /\ m_threshold = DefaultThreshold
    /\ m_result = <<>>
    /\ m_called = FALSE

Init ==
    /\ input_songs \in Setlists
    /\ break_url \in BOOLEAN
    /\ i = 0
    /\ selected_songs = <<>>
    /\ matches = <<>>
    /\ selected_index = 0
    /\ pc = "loop"
    /\ exit_code = "none"
    /\ cancelled = FALSE
    /\ opened = <<>>
    /\ advances = 0
    /\ go_backs = 0
    /\ skips = 0
    /\ back_from = None
    /\ MatchIdle
    /\ ReadIdle

\* line 155 for each item of the model: find_matches is pure, so its results on
\* the fixed catalog are tabulated once
found_matches == [e \in Items |-> find_matches(e, available_songs, DefaultThreshold)]

config == <<input_songs, break_url>>
history == <<advances, go_backs, skips, back_from>>

\* line 115 false: the loop ends; lines 182-188 wait once more when break_url is set
LoopExit ==
    /\ pc = "loop"
    /\ ~(i < Len(input_songs))
    /\ pc' = IF HasBreakUrl THEN "final_wait" ELSE "returned"
    /\ UNCHANGED <<config, i, selected_songs, matches, selected_index, exit_code,
                   cancelled, opened, history, mvars, rvars>>

\* lines 118-122: a Break without break_url
SkipBreakNoUrl ==
    /\ pc = "loop"
    /\ i < Len(input_songs)
    /\ IsBreak(PyIndex(input_songs, i))
    /\ ~HasBreakUrl
    /\ i' = i + 1
    /\ advances' = advances + 1
    /\ UNCHANGED <<config, selected_songs, matches, selected_index, pc, exit_code,
                   cancelled, opened, go_backs, skips, back_from, mvars, rvars>>

\* lines 124-125: confirm_break is shown
ShowConfirmBreak ==
    /\ pc = "loop"
    /\ i < Len(input_songs)
    /\ IsBreak(PyIndex(input_songs, i))
    /\ HasBreakUrl
    /\ pc' = "confirm_break"
    /\ selected_index' = 0
    /\ UNCHANGED <<config, i, selected_songs, matches, exit_code, cancelled, opened,
                   history, mvars, rvars>>

\* lines 141-146: the announcement is printed and main waits at input()
Announce ==
    /\ pc = "loop"
    /\ i < Len(input_songs)
    /\ ~IsBreak(PyIndex(input_songs, i))
    /\ pc' = "announce"
    /\ UNCHANGED <<config, i, selected_songs, matches, selected_index, exit_code,
                   cancelled, opened, history, mvars, rvars>>

\* lines 146-165: input() returns, find_matches runs, and confirm_action or
\* select_match is shown
AnnounceInput ==
    /\ pc = "announce"
    /\ LET found == found_matches[PyIndex(input_songs, i)]
       IN  /\ matches' = found
           /\ IF NoMatches(found)
              THEN pc' = "confirm_action" /\ selected_index' = 0
              ELSE pc' = "select_match" /\ selected_index' = MatchInitialIndex(found)
    /\ back_from' = None
    /\ UNCHANGED <<config, i, selected_songs, exit_code, cancelled, opened,
                   advances, go_backs, skips, mvars, rvars>>

\* ui.py lines 69-79
SelectMatchUp ==
    /\ pc = "select_match"
    /\ selected_index' = IndexUp(selected_index, Len(MatchChoices(matches)))
    /\ UNCHANGED <<config, i, selected_songs, matches, pc, exit_code, cancelled,
                   opened, history, mvars, rvars>>

SelectMatchDown ==
    /\ pc = "select_match"
    /\ selected_index' = IndexDown(selected_index, Len(MatchChoices(matches)))
    /\ UNCHANGED <<config, i, selected_songs, matches, pc, exit_code, cancelled,
                   opened, history, mvars, rvars>>

\* ui.py lines 81-88 and 111, then __main__.py lines 166-179
SelectMatchEnter ==
    /\ pc = "select_match"
    /\ LET r == SelectMatchResult(matches, selected_index)
           o == SongOutcome(r, i, selected_songs)
       IN  /\ r.go_back => go_backs < MaxGoBacks
           /\ i' = o.i
           /\ selected_songs' = o.selected_songs
           /\ opened' = opened \o o.open
           /\ pc' = o.pc
           /\ exit_code' = o.exit_code
           /\ advances' = IF o.i = i + 1 THEN advances + 1 ELSE advances
           /\ go_backs' = IF r.go_back THEN go_backs + 1 ELSE go_backs
           /\ skips' = IF ~r.go_back /\ r.selected = None THEN skips + 1 ELSE skips
           /\ back_from' = IF r.go_back THEN Some(i) ELSE None
    /\ selected_index' = 0
    /\ UNCHANGED <<config, matches, cancelled, mvars, rvars>>

\* ui.py lines 150-160
ConfirmActionUp ==
    /\ pc = "confirm_action"
    /\ selected_index' = IndexUp(selected_index, Len(ActionChoices))
    /\ UNCHANGED <<config, i, selected_songs, matches, pc, exit_code, cancelled,
                   opened, history, mvars, rvars>>

ConfirmActionDown ==
    /\ pc = "confirm_action"
    /\ selected_index' = IndexDown(selected_index, Len(ActionChoices))
    /\ UNCHANGED <<config, i, selected_songs, matches, pc, exit_code, cancelled,
                   opened, history, mvars, rvars>>

\* ui.py lines 162-165 and 188, then __main__.py lines 158-162
ConfirmActionEnter ==
    /\ pc = "confirm_action"
    /\ LET skip == ConfirmActionResult(selected_index)
           o == NoMatchOutcome(skip, i)
       IN  /\ i' = o.i
           /\ pc' = o.pc
           /\ exit_code' = o.exit_code
           /\ advances' = IF o.i = i + 1 THEN advances + 1 ELSE advances
           /\ skips' = IF skip THEN skips + 1 ELSE skips
    /\ selected_index' = 0
    /\ back_from' = None
    /\ UNCHANGED <<config, selected_songs, matches, cancelled, opened, go_backs, mvars, rvars>>

\* ui.py lines 224-234
ConfirmBreakUp ==
    /\ pc = "confirm_break"
    /\ selected_index' = IndexUp(selected_index, Len(BreakChoices))
    /\ UNCHANGED <<config, i, selected_songs, matches, pc, exit_code, cancelled,
                   opened, history, mvars, rvars>>

ConfirmBreakDown ==
    /\ pc = "confirm_break"
    /\ selected_index' = IndexDown(selected_index, Len(BreakChoices))
    /\ UNCHANGED <<config, i, selected_songs, matches, pc, exit_code, cancelled,
                   opened, history, mvars, rvars>>

\* ui.py lines 236-243 and 266, then __main__.py lines 126-139
ConfirmBreakEnter ==
    /\ pc = "confirm_break"
    /\ LET r == ConfirmBreakResult(selected_index)
           o == BreakOutcome(r, i, selected_songs)
       IN  /\ r.go_back => go_backs < MaxGoBacks
           /\ i' = o.i
           /\ selected_songs' = o.selected_songs
           /\ opened' = opened \o o.open
           /\ pc' = o.pc
           /\ advances' = IF o.i = i + 1 THEN advances + 1 ELSE advances
           /\ go_backs' = IF r.go_back THEN go_backs + 1 ELSE go_backs
           /\ skips' = IF ~r.go_back /\ ~r.take_break THEN skips + 1 ELSE skips
           /\ back_from' = IF r.go_back THEN Some(i) ELSE None
    /\ selected_index' = 0
    /\ UNCHANGED <<config, matches, exit_code, cancelled, mvars, rvars>>

\* lines 134 and 138-139: input() returns after a taken break
BreakWaitInput ==
    /\ pc = "break_wait"
    /\ i' = i + 1
    /\ advances' = advances + 1
    /\ pc' = "loop"
    /\ UNCHANGED <<config, selected_songs, matches, selected_index, exit_code,
                   cancelled, opened, go_backs, skips, back_from, mvars, rvars>>

\* lines 185 and 189: input() returns, the break page is opened, main returns
FinalWaitInput ==
    /\ pc = "final_wait"
    /\ opened' = Append(opened, "break_url")
    /\ pc' = "returned"
    /\ UNCHANGED <<config, i, selected_songs, matches, selected_index, exit_code,
                   cancelled, history, mvars, rvars>>

\* Ctrl-C at a blocking prompt
KeyboardInterrupt ==
    /\ pc \in BlockingPrompts
    /\ LET o == InterruptOutcome(pc)
       IN  /\ pc' = o.pc
           /\ exit_code' = o.exit_code
           /\ cancelled' = o.cancelled
    /\ UNCHANGED <<config, i, selected_songs, matches, selected_index, opened,
                   history, mvars, rvars>>

Next ==
    \/ LoopExit
    \/ SkipBreakNoUrl
    \/ ShowConfirmBreak
    \/ Announce
    \/ AnnounceInput
    \/ SelectMatchUp
    \/ SelectMatchDown
    \/ SelectMatchEnter
    \/ ConfirmActionUp
    \/ ConfirmActionDown
    \/ ConfirmActionEnter
    \/ ConfirmBreakUp
    \/ ConfirmBreakDown
    \/ ConfirmBreakEnter
    \/ BreakWaitInput
    \/ FinalWaitInput
    \/ KeyboardInterrupt

Spec == Init /\ [][Next]_vars

----------------------------------------------------------------------------
\* What the operator has highlighted when pressing enter

GoBackChosen ==
    \/ pc = "select_match" /\ SelectMatchResult(matches, selected_index).go_back
    \/ pc = "confirm_break" /\ ConfirmBreakResult(selected_index).go_back

SkipChosen ==
    \/ /\ pc = "select_match"
       /\ ~SelectMatchResult(matches, selected_index).go_back
       /\ SelectMatchResult(matches, selected_index).selected = None
    \/ /\ pc = "confirm_break"
       /\ ~ConfirmBreakResult(selected_index).go_back
       /\ ~ConfirmBreakResult(selected_index).take_break
    \/ pc = "confirm_action" /\ ConfirmActionResult(selected_index)

DeclineChosen == pc = "confirm_action" /\ ~ConfirmActionResult(selected_index)

EnterStep == SelectMatchEnter \/ ConfirmActionEnter \/ ConfirmBreakEnter

HasBreakRecord == \E k \in 1..Len(selected_songs) : selected_songs[k][1] = "break"

\* the record holds one of the candidates find_matches returns for the entry
IsPickFor(record, entry) ==
    /\ record[1] = "song"
    /\ \E k \in 1..Len(found_matches[entry]) : record[2] = Some(found_matches[entry][k])

----------------------------------------------------------------------------
\* C3: the cursor i is never negative, and go-back signals issued before any
\* forward progress leave it at 0.
C3_CursorFloor == i >= 0 /\ (advances = 0 => i = 0)

\* two go-backs at the first item, nothing advanced yet
C3_Witness == go_backs >= 2 /\ advances = 0 /\ i = 0 /\ pc = "loop"

\* C4 as stated: in every reachable state the number of records is at most
\* the number of forward advances.
C4_Original == Len(selected_songs) <= advances

\* C4 as amended: the record count is at most the number of advances at the
\* loop head, at every prompt but the post-break wait, and after main returns;
\* it exceeds it by at most one, while the wait after a taken break is pending
\* or was interrupted; and a go-back or a skip leaves selected_songs unchanged.
C4_Amended ==
    /\ [](Len(selected_songs) <= advances + 1)
    /\ [](pc \notin {"break_wait", "exited"} => Len(selected_songs) <= advances)
    /\ [][ (((GoBackChosen \/ SkipChosen) /\ EnterStep) \/ SkipBreakNoUrl)
             => selected_songs' = selected_songs ]_vars

\* a break was just taken, after a pick and a go-back: its record is there,
\* its advance is not
C4_Witness ==
    /\ pc = "break_wait"
    /\ Len(selected_songs) = advances + 1
    /\ Len(selected_songs) >= 2
    /\ go_backs >= 1

\* C5 as stated: a record made before a rewind is discarded when the item is
\* completed again, so at the end of the run the list holds at most one record
\* per setlist position.
C5_OneRecordPerPosition ==
    pc = "returned" => Len(selected_songs) <= Len(input_songs)

\* C6 as stated: without break_url, after a go-back issued at the item right
\* after a Break, the next item announced is the one before the Break.
C6_RewindByTwo ==
    ( /\ pc = "announce"
      /\ ~break_url
      /\ back_from # None
      /\ back_from[1] >= 2
      /\ IsBreak(PyIndex(input_songs, back_from[1] - 1))
      /\ ~IsBreak(PyIndex(input_songs, back_from[1] - 2)) )
    => i = back_from[1] - 2

\* C7: without break_url the break prompt and the post-break wait are never
\* reached, no "break" record and no break page exist, a Break step only moves
\* the cursor by one, and [SongA, Break, SongB] walked with no go-back and no
\* skip ends with exactly two records, a pick for SongA then a pick for SongB.
C7_BreakInvisible ==
    /\ [](~break_url =>
            /\ pc \notin {"confirm_break", "break_wait", "final_wait"}
            /\ ~HasBreakRecord
            /\ \A k \in 1..Len(opened) : opened[k] # "break_url")
    /\ [][ SkipBreakNoUrl =>
             /\ ~break_url
             /\ i' = i + 1
             /\ selected_songs' = selected_songs
             /\ opened' = opened
             /\ pc' = "loop" ]_vars
    /\ []( ( /\ pc = "returned"
             /\ ~break_url
             /\ input_songs = <<SongA, BreakItem, SongB>>
             /\ go_backs = 0
             /\ skips = 0 )
           => /\ Len(selected_songs) = 2
              /\ IsPickFor(selected_songs[1], SongA)
              /\ IsPickFor(selected_songs[2], SongB) )

\* the scenario's run has ended
C7_Witness ==
    /\ pc = "returned"
    /\ ~break_url
    /\ input_songs = <<SongA, BreakItem, SongB>>
    /\ go_backs = 0
    /\ skips = 0
    /\ Len(selected_songs) = 2

\* C8: the skip confirmation is only shown when find_matches returned nothing;
\* declining it ends the run with exit code 1, the cursor, the records and the
\* opened pages untouched, and nothing runs afterwards; confirming it advances
\* the cursor by one and appends no record.
C8_NoMatch ==
    /\ [][ ConfirmActionEnter =>
             /\ matches = <<>>
             /\ selected_songs' = selected_songs
             /\ opened' = opened
             /\ IF ConfirmActionResult(selected_index)
                THEN i' = i + 1 /\ pc' = "loop" /\ exit_code' = "none"
                ELSE i' = i /\ pc' = "exited" /\ exit_code' = "1" ]_vars
    /\ [](pc = "exited" => ~ENABLED Next)

\* the run was aborted at a song without matches, with items left
C8_Witness ==
    /\ pc = "exited"
    /\ exit_code = "1"
    /\ i + 1 < Len(input_songs)
    /\ selected_songs # <<>>

\* C9: an interrupt can arrive at every blocking prompt; it ends the run at
\* once on the "cancelled by user" path, which neither the normal return nor
\* the no-match failure takes; the cursor, the records and the opened pages
\* stay as they were and nothing runs afterwards.
C9_Interrupt ==
    /\ [](pc \in BlockingPrompts => ENABLED KeyboardInterrupt)
    /\ [][ KeyboardInterrupt =>
             /\ pc' = "exited"
             /\ cancelled'
             /\ exit_code' = "0"
             /\ i' = i
             /\ selected_songs' = selected_songs
             /\ opened' = opened ]_vars
    /\ [](cancelled => pc = "exited" /\ exit_code = "0")
    /\ [](pc = "exited" => ~ENABLED Next)

\* a run cancelled in the middle of the setlist, after a record was made
C9_Witness ==
    /\ cancelled
    /\ pc = "exited"
    /\ i < Len(input_songs)
    /\ selected_songs # <<>>

\* C10 as stated: a run that ends before the cursor reaches the end of the
\* setlist was ended by the declined no-match confirmation.
C10_Original ==
    (pc = "exited" /\ i < Len(input_songs)) => exit_code = "1"

\* C10 as amended: the run is ended early only by the declined no-match
\* confirmation or by an interrupt at a blocking prompt; every other answer
\* and every auto-skipped Break appends a record, advances the cursor or
\* rewinds it, and the loop goes on.
C10_Amended ==
    [][ /\ pc' = "exited" => (KeyboardInterrupt \/ (ConfirmActionEnter /\ DeclineChosen))
        /\ ( \/ SelectMatchEnter
             \/ ConfirmBreakEnter
             \/ (ConfirmActionEnter /\ ~DeclineChosen)
             \/ SkipBreakNoUrl
             \/ BreakWaitInput )
           => /\ pc' \in {"loop", "break_wait"}
              /\ \/ selected_songs' # selected_songs
                 \/ i' = i + 1
                 \/ i' = RewindIndex(i) ]_vars

\* a run cancelled at a song that has candidates
C10_Witness ==
    /\ pc = "exited"
    /\ cancelled
    /\ i < Len(input_songs)
    /\ matches # <<>>
    /\ found_matches[PyIndex(input_songs, i)] = matches

----------------------------------------------------------------------------
\* C11: select_match lists the candidates in matcher order, then Skip, then
\* Go back, and starts with the last candidate highlighted; pressing enter
\* right away returns that candidate, which has the highest score, with
\* go_back false.
C11_DefaultIsBest ==
    [][ (AnnounceInput /\ pc' = "select_match") =>
          LET n == Len(matches')
              choices == MatchChoices(matches')
              r == SelectMatchResult(matches', selected_index')
          IN  /\ n >= 1
              /\ Len(choices) = n + 2
              /\ \A k \in 1..n : choices[k] = <<Some(matches'[k]), matches'[k].display_name>>
              /\ choices[n + 1][2] = SkipLabel
              /\ choices[n + 2][2] = GoBackLabel
              /\ selected_index' = n - 1
              /\ r.selected = Some(matches'[n])
              /\ r.go_back = FALSE
              /\ \A k \in 1..n : matches'[k].similarity <= matches'[n].similarity ]_vars

\* the chooser has just been shown for a song with two candidates, the better one highlighted
C11_Witness ==
    /\ pc = "select_match"
    /\ Len(matches) = 2
    /\ matches[1].similarity < matches[2].similarity
    /\ selected_index = 1
    /\ back_from = None

----------------------------------------------------------------------------
\* models.py: read_input_list (lines 39-62), called on its own

Tab == "\t"
BreakWord == <<"B", "r", "e", "a", "k">>

\* the characters str.strip() removes that a line of the model can hold
IsSpace(c) == c \in {" ", Tab}

RECURSIVE lstrip(_)
lstrip(s) == IF s # <<>> /\ IsSpace(s[1]) THEN lstrip(Tail(s)) ELSE s

RECURSIVE rstrip(_)
rstrip(s) ==
    IF s # <<>> /\ IsSpace(s[Len(s)]) THEN rstrip(SubSeq(s, 1, Len(s) - 1)) ELSE s

\* str.strip()
strip(s) == rstrip(lstrip(s))

\* str.split('\t')
RECURSIVE split(_)
split(s) ==
    IF \A k \in 1..Len(s) : s[k] # Tab THEN <<s>>
    ELSE LET k == CHOOSE j \in 1..Len(s) : s[j] = Tab /\ \A h \in 1..(j - 1) : s[h] # Tab
         IN  <<SubSeq(s, 1, k - 1)>> \o split(SubSeq(s, k + 1, Len(s)))

\* lines 40 and 45: the whole line is stripped, then split, then each part stripped
LineParts(raw) == LET fields == split(strip(raw)) IN [k \in 1..Len(fields) |-> strip(fields[k])]

\* lines 40-59: the items one line of the file adds to songs
LineItems(raw) ==
    IF strip(raw) = <<>> THEN <<>>
    ELSE LET parts == LineParts(raw)
         IN  IF parts[1] = BreakWord THEN <<BreakItem>>
             ELSE IF Len(parts) >= 4
                  THEN <<InputSong(parts[1], parts[2], parts[3], parts[4])>>
                  ELSE <<>>

RECURSIVE read_input_list(_)
read_input_list(lines) ==
    IF lines = <<>> THEN <<>>
    ELSE read_input_list(SubSeq(lines, 1, Len(lines) - 1)) \o LineItems(lines[Len(lines)])

\* the fields a line of the model is made of, and the lines made of them
ReadFields == {<<>>, BreakWord, <<" ", "x">>}

RECURSIVE JoinTab(_)
JoinTab(fields) ==
    IF Len(fields) = 1 THEN fields[1]
    ELSE JoinTab(SubSeq(fields, 1, Len(fields) - 1)) \o <<Tab>> \o fields[Len(fields)]

ReadLines == {JoinTab(f) : f \in UNION {[1..n -> ReadFields] : n \in 1..MaxFields}}

ReadFiles == UNION {[1..n -> ReadLines] : n \in 0..MaxLines}

InitRead ==
    /\ r_lines \in ReadFiles
    /\ r_result = <<>>
    /\ r_done = FALSE
    /\ MatchIdle
    /\ NavIdle

CallReadInputList ==
    /\ ~r_done
    /\ r_result' = read_input_list(r_lines)
    /\ r_done' = TRUE
    /\ UNCHANGED <<r_lines, mvars, nvars>>

NextRead == CallReadInputList

SpecRead == InitRead /\ [][NextRead]_vars

----------------------------------------------------------------------------
\* The items C12 describes: the tab-separated fields are those of the line as
\* it stands in the file; each field is compared and stored without its
\* surrounding spaces, as the code stores it.

ClaimedFields(raw) == LET fields == split(raw) IN [k \in 1..Len(fields) |-> strip(fields[k])]

ClaimedItems(raw) ==
    IF strip(raw) = <<>> THEN <<>>
    ELSE LET fields == ClaimedFields(raw)
         IN  IF fields[1] = BreakWord THEN <<BreakItem>>
             ELSE IF Len(fields) >= 4
                  THEN <<InputSong(fields[1], fields[2], fields[3], fields[4])>>
                  ELSE <<>>

RECURSIVE ClaimedList(_)
ClaimedList(lines) ==
    IF lines = <<>> THEN <<>>
    ELSE ClaimedList(SubSeq(lines, 1, Len(lines) - 1)) \o ClaimedItems(lines[Len(lines)])

SameItem(a, b) ==
    /\ a.kind = b.kind
    /\ a.kind = "Song" =>
          /\ a.title = b.title
          /\ a.artist = b.artist
          /\ a.gema_nr = b.gema_nr
          /\ a.leader = b.leader

SameItems(xs, ys) ==
    /\ Len(xs) = Len(ys)
    /\ \A k \in 1..Len(xs) : SameItem(xs[k], ys[k])

\* C12 as stated: read_input_list returns, in file order, one item per
\* non-blank line that is a Break marker (first tab-separated field Break) or
\* has at least 4 tab-separated fields (an entry of its first four fields),
\* and nothing for any other line.
C12_OneItemPerLine == r_done => SameItems(r_result, ClaimedList(r_lines))

----------------------------------------------------------------------------
\* C13: with break_url set, a go-back chosen at index i >= 1, in the song
\* chooser or in the break prompt alike, sets the cursor to i - 1 and leaves
\* the records as they are; the next prompt is the announcement of the Song
\* or the break prompt of the Break at i - 1.
C13_GoBackOneStep ==
    /\ [][ (break_url /\ i >= 1 /\ GoBackChosen /\ EnterStep) =>
             /\ i' = i - 1
             /\ selected_songs' = selected_songs
             /\ opened' = opened
             /\ pc' = "loop" ]_vars
    /\ []( (break_url /\ back_from # None /\ back_from[1] >= 1) =>
             /\ i = back_from[1] - 1
             /\ pc \in {"loop", "announce", "confirm_break", "exited"}
             /\ pc = "loop" => ENABLED (Announce \/ ShowConfirmBreak)
             /\ pc = "announce" => ~IsBreak(PyIndex(input_songs, i))
             /\ pc = "confirm_break" => IsBreak(PyIndex(input_songs, i)) )

\* a go-back chosen at the break prompt of index 2 has led to the break prompt of index 1
C13_Witness ==
    /\ break_url
    /\ back_from = Some(2)
    /\ IsBreak(PyIndex(input_songs, 2))
    /\ pc = "confirm_break"
    /\ i = 1

----------------------------------------------------------------------------
PickChosen ==
    /\ pc = "select_match"
    /\ ~SelectMatchResult(matches, selected_index).go_back
    /\ SelectMatchResult(matches, selected_index).selected # None

TakeBreakChosen ==
    pc = "confirm_break" /\ ConfirmBreakResult(selected_index).take_break

\* C14 as stated: every step that appends a record also advances the cursor
\* by exactly one.
C14_Original ==
    [][ selected_songs' # selected_songs => i' = i + 1 ]_vars

\* C14 as amended: selected_songs changes exactly when the operator picks a
\* candidate in the song chooser or takes the break in the break prompt; the
\* step appends one record at the end, ("song", the highlighted candidate) or
\* ("break", None). A pick advances the cursor by one in the same step; a
\* taken break leaves the cursor where it is until the wait that follows
\* returns, which advances it by one.
C14_Amended ==
    /\ [][ /\ (selected_songs' # selected_songs)
                <=> ((SelectMatchEnter /\ PickChosen) \/ (ConfirmBreakEnter /\ TakeBreakChosen))
           /\ (SelectMatchEnter /\ PickChosen) =>
                 /\ selected_index \in 0..(Len(matches) - 1)
                 /\ selected_songs' =
                       Append(selected_songs, <<"song", Some(matches[selected_index + 1])>>)
                 /\ i' = i + 1
           /\ (ConfirmBreakEnter /\ TakeBreakChosen) =>
                 /\ selected_songs' = Append(selected_songs, <<"break", None>>)
                 /\ i' = i
                 /\ pc' = "break_wait"
           /\ BreakWaitInput =>
                 /\ i' = i + 1
                 /\ selected_songs' = selected_songs ]_vars
    /\ [](pc = "break_wait" =>
            /\ selected_songs # <<>>
            /\ selected_songs[Len(selected_songs)] = <<"break", None>>)

\* a break was taken after a pick: both records are there, in that order,
\* and the cursor still points at the Break
C14_Witness ==
    /\ pc = "break_wait"
    /\ Len(selected_songs) = 2
    /\ selected_songs[1][1] = "song"
    /\ selected_songs[2][1] = "break"
    /\ IsBreak(PyIndex(input_songs, i))

----------------------------------------------------------------------------
\* The loop with its scheduling: main is a sequential program, so whenever it
\* is not blocked at a prompt it takes its next step. What the operator does
\* at a prompt, and when, is left open.
ProgramStep == LoopExit \/ SkipBreakNoUrl \/ ShowConfirmBreak \/ Announce

SpecLive == Spec /\ WF_vars(ProgramStep)

\* the prompts of the loop body
LoopPrompts == {"announce", "select_match", "confirm_action", "confirm_break", "break_wait"}

Done == i >= Len(input_songs) /\ pc \in {"final_wait", "returned"}

\* C15: if the run is never ended by an interrupt or a declined no-match
\* confirmation and every prompt of the loop is eventually answered, then,
\* the go-backs being finitely many, the loop eventually ends with the cursor
\* at or past the end of the setlist and stays ended.
C15_Terminates ==
    ([](pc # "exited") /\ []<>(pc \notin LoopPrompts)) => <>[]Done

\* a run that went back as often as the model allows and still ended
C15_Witness ==
    /\ pc = "returned"
    /\ i = Len(input_songs)
    /\ Len(input_songs) >= 2
    /\ go_backs >= 2
    /\ skips >= 1

----------------------------------------------------------------------------
\* The highlight of the three choosers

Choosers == {"select_match", "confirm_action", "confirm_break"}

\* The number of options of the chooser on screen
ChooserSize ==
    CASE pc = "select_match" -> Len(MatchChoices(matches))
      [] pc = "confirm_action" -> Len(ActionChoices)
      [] pc = "confirm_break" -> Len(BreakChoices)
      [] OTHER -> 0

UpStep == SelectMatchUp \/ ConfirmActionUp \/ ConfirmBreakUp
DownStep == SelectMatchDown \/ ConfirmActionDown \/ ConfirmBreakDown

\* C16: in each chooser the highlighted index is within 0 .. n-1 when the
\* chooser is shown and after every up or down key, n being the number of
\* options; down from the last option goes to the first and otherwise one
\* further, up from the first goes to the last and otherwise one back; and a
\* down key after an up key, or an up key after a down key, would restore the
\* highlight.
C16_Highlight ==
    [][/\ pc' \in Choosers => selected_index' \in 0..(ChooserSize' - 1)
       /\ UpStep =>
            /\ selected_index' = IF selected_index = 0 THEN ChooserSize - 1
                                 ELSE selected_index - 1
            /\ IndexDown(selected_index', ChooserSize) = selected_index
       /\ DownStep =>
            /\ selected_index' = IF selected_index = ChooserSize - 1 THEN 0
                                 ELSE selected_index + 1
            /\ IndexUp(selected_index', ChooserSize) = selected_index]_vars

\* select_match with two candidates has its last option, Go back, highlighted:
\* the highlight has moved there from the initial one
C16_Witness ==
    /\ pc = "select_match"
    /\ Len(matches) = 2
    /\ selected_index = Len(MatchChoices(matches)) - 1

----------------------------------------------------------------------------
\* C17: when the operator confirms in select_match, after any sequence of
\* navigation keys, the result depends on the highlighted option alone: the
\* k-th candidate yields (that candidate, go_back = false), the option after
\* the candidates, Skip, yields (None, false), the last option, Go back,
\* yields (None, true); a candidate and go_back = true never come together.
C17_ResultByOption ==
    [][SelectMatchEnter =>
         LET r == SelectMatchResult(matches, selected_index)
             n == Len(matches)
         IN  /\ selected_index \in 0..(n + 1)
             /\ selected_index < n =>
                    r = [selected |-> Some(matches[selected_index + 1]), go_back |-> FALSE]
             /\ selected_index = n => r = [selected |-> None, go_back |-> FALSE]
             /\ selected_index = n + 1 => r = [selected |-> None, go_back |-> TRUE]
             /\ ~(r.selected # None /\ r.go_back)]_vars

\* every item of the setlist has candidates, so every confirmation was made in
\* select_match: a candidate was confirmed first, and a Skip and a Go back too
C17_Witness ==
    /\ pc = "loop"
    /\ Len(selected_songs) >= 1
    /\ selected_songs[1][1] = "song"
    /\ go_backs >= 1
    /\ skips >= 1
    /\ \E k \in 1..Len(input_songs) : ~IsBreak(input_songs[k]) /\ Len(found_matches[input_songs[k]]) = 2
    /\ \A k \in 1..Len(input_songs) : ~IsBreak(input_songs[k]) /\ found_matches[input_songs[k]] # <<>>

----------------------------------------------------------------------------
\* One pass of the while loop ends when control is back at line 115
IterationEnd == SkipBreakNoUrl \/ (pc # "loop" /\ pc' = "loop")

\* The steps that use input_songs[i], read at line 116
ReadsEntry == SkipBreakNoUrl \/ ShowConfirmBreak \/ Announce \/ AnnounceInput

\* C20: in every reachable state 0 <= i <= len(input_songs); a pass of the
\* loop changes i by -1, 0 or +1, only where it ends, and by 0 only for a
\* go-back at index 0; and input_songs is read at an index within
\* 0 .. len(input_songs)-1 only.
C20_CursorRange ==
    /\ [](0 <= i /\ i <= Len(input_songs))
    /\ [][/\ IterationEnd => /\ i' - i \in {-1, 0, 1}
                             /\ i' = i => (GoBackChosen /\ i = 0)
          /\ ~IterationEnd => i' = i
          /\ ReadsEntry => i \in 0..(Len(input_songs) - 1)]_vars

\* the loop was left with the cursor at the end of a setlist of two items or
\* more, after two go-backs: i is the advances less the go-backs that moved it,
\* so one go-back moved the cursor by -1 and the other, at index 0, by 0
C20_Witness ==
    /\ pc \in {"final_wait", "returned"}
    /\ i = Len(input_songs)
    /\ Len(input_songs) >= 2
    /\ go_backs = 2
    /\ advances = Len(input_songs) + 1

----------------------------------------------------------------------------
\* C21: select_match is never shown with an empty candidate list: when
\* find_matches returns no candidate for the announced entry, main shows
\* confirm_action instead; and when select_match is shown, its initial
\* highlight len(matches) - 1 is the index of a candidate, never that of the
\* Skip or the Go back option.
C21_ChooserHasCandidates ==
    /\ [](pc = "select_match" => matches # <<>>)
    /\ [][AnnounceInput =>
            LET found == find_matches(PyIndex(input_songs, i), available_songs,
                                      DefaultThreshold)
                shown == PyIndex(MatchChoices(matches'), selected_index')
            IN  /\ found = <<>> => pc' = "confirm_action"
                /\ found # <<>> => pc' = "select_match"
                /\ pc' = "select_match" =>
                       /\ matches' = found
                       /\ selected_index' \in 0..(Len(found) - 1)
                       /\ shown[1] \in {Some(found[k]) : k \in 1..Len(found)}
                       /\ shown[2] \notin {SkipLabel, GoBackLabel}]_vars

\* confirm_action is on screen for an entry without candidates, after a
\* candidate was picked in select_match for an earlier entry
C21_Witness ==
    /\ pc = "confirm_action"
    /\ matches = <<>>
    /\ i >= 1
    /\ Len(selected_songs) >= 1
    /\ selected_songs[1][1] = "song"

====
